---- MODULE Spec2Model ----
(***************************************************************************)
(* Model of the two GW2 statistics dashboards of this repository:          *)
(*   src/Top_Stats_Dashboard.py  the Streamlit script main(), re-run from   *)
(*                               top to bottom on every user interaction,   *)
(*   src/app.py                  the Dash callback update_output /          *)
(*                               parse_contents.                            *)
(* Three specifications share the module:                                  *)
(*   Spec      a Streamlit session: uploads, st.session_state.db_files,     *)
(*             the temp_dbs directory, the st.cache_data cache of           *)
(*             load_data, and the script run split at its sections;         *)
(*   SpecPipe  the filter (lines 97-110) and the trend aggregation          *)
(*             (line 139) of main() as pure functions over bounded tables;  *)
(*   SpecDash  the upload callback of app.py.                               *)
(***************************************************************************)
EXTENDS Integers, Sequences, FiniteSets, TLC

VARIABLES
    \* ---- Streamlit session (Spec) ----
    uploaded_files,   \* value of the file_uploader widget (a list of files)
    db_files,         \* st.session_state.db_files: file name -> path
    disk,             \* temp_dbs: path -> content written there
    cache,            \* st.cache_data of load_data: path -> table
    nextUuid,         \* number of uuid4() values drawn so far
    loadsOfSelection, \* executions of load_data's body since the uploads or
                      \* the selected database last changed (history)
    pc,               \* position of the script run
    selected_db, db_path, df, filtered_df,
    aliased,          \* filtered_df is the very object df
    metric, trend_df, metric_comp, formula, clicked,
    x_column, y_column, size_column,
    rendered,         \* elements the run has put on the page
    \* ---- pure pipeline (SpecPipe) ----
    stage, args, result,
    \* ---- Dash upload callback (SpecDash) ----
    upload_data, output_datatable

sessionVars == <<uploaded_files, db_files, disk, cache, nextUuid,
                 loadsOfSelection, pc, selected_db, db_path, df, filtered_df,
                 aliased, metric, trend_df, metric_comp, formula, clicked,
                 x_column, y_column, size_column, rendered>>
pipeVars == <<stage, args, result>>
dashVars == <<upload_data, output_datatable>>
vars == <<sessionVars, pipeVars, dashVars>>

(***************************************************************************)
(* Bounds of the model.                                                    *)
(***************************************************************************)
MaxRows == 2
MaxDay == 2
MaxUploads == 1
MaxFiles == 2

(***************************************************************************)
(* Data: a Table is a column set and a sequence of rows, each row a         *)
(* function from the column names to values.                                *)
(***************************************************************************)
Names == {"ann", "bob"}
Profs == {"Guardian", "Warrior"}
Days == 1..MaxDay
Damages == {100, 200}

AllCols == {"name", "profession", "date", "num_fights", "duration",
            "damage", "healing", "downs"}
TextCols == {"name", "profession", "date"}

MkRow(n, p, d, dmg, dur) ==
    [name |-> n, profession |-> p, date |-> d, num_fights |-> 1,
     duration |-> dur, damage |-> dmg, healing |-> 50, downs |-> 3]

MkTable(cols, rows) == [cols |-> cols, rows |-> rows]
NoTable == MkTable({}, <<>>)

SeqsUpTo(S, n) == UNION {[1..k -> S] : k \in 0..n}

\* Python's str order (by code point) on the strings of the model.
SortedStrings == <<"Guardian", "Warrior", "ann", "bob">>
StrRank(s) == CHOOSE i \in 1..Len(SortedStrings) : SortedStrings[i] = s
StrLess(a, b) == StrRank(a) < StrRank(b)

(***************************************************************************)
(* float64 results: a finite value is a reduced fraction n/d, d > 0.        *)
(***************************************************************************)
Abs(x) == IF x < 0 THEN -x ELSE x

RECURSIVE GCD(_, _)
GCD(a, b) == IF b = 0 THEN a ELSE GCD(b, a % b)

Fin(n, d) == LET g == GCD(Abs(n), d)
             IN [k |-> "fin", n |-> n \div g, d |-> d \div g]
PosInf == [k |-> "inf", n |-> 1, d |-> 0]
NegInf == [k |-> "inf", n |-> -1, d |-> 0]
NaN == [k |-> "nan", n |-> 0, d |-> 0]
IsFinite(v) == v.k = "fin"

\* numpy true division of two integers: x/0 is +-inf, 0/0 is nan, no fault.
NumpyDiv(a, b) ==
    IF b # 0 THEN (IF b > 0 THEN Fin(a, b) ELSE Fin(-a, -b))
    ELSE IF a > 0 THEN PosInf ELSE IF a < 0 THEN NegInf ELSE NaN

RECURSIVE SumSeq(_)
SumSeq(s) == IF s = <<>> THEN 0 ELSE Head(s) + SumSeq(Tail(s))

\* Series.mean() of a non-empty integer column.
Mean(vals) == NumpyDiv(SumSeq(vals), Len(vals))

(***************************************************************************)
(* filter: main(), lines 97-110.  players/professions are the multiselect   *)
(* lists (as sets), date_range the tuple of 0..2 dates of st.date_input.    *)
(***************************************************************************)
\* Faulty variants of the filter: an empty selection matching nothing, a date range
\* that leaves out its end date, and a single-date branch that also drops
\* the first row it kept.
FilterMatchNone(rows, players, professions, date_range) ==
    LET InP(r) == r["name"] \in players
        InQ(r) == r["profession"] \in professions
        Between(r) == r["date"] >= date_range[1] /\ r["date"] <= date_range[2]
        OnDay(r) == r["date"] = date_range[1]
        f1 == SelectSeq(rows, InP)
        f2 == SelectSeq(f1, InQ)
    IN  IF Len(date_range) = 2 THEN SelectSeq(f2, Between)
        ELSE IF Len(date_range) = 1 THEN SelectSeq(f2, OnDay)
        ELSE f2

FilterExclusiveEnd(rows, players, professions, date_range) ==
    LET InP(r) == r["name"] \in players
        InQ(r) == r["profession"] \in professions
        Between(r) == r["date"] >= date_range[1] /\ r["date"] < date_range[2]
        OnDay(r) == r["date"] = date_range[1]
        f1 == IF players # {} THEN SelectSeq(rows, InP) ELSE rows
        f2 == IF professions # {} THEN SelectSeq(f1, InQ) ELSE f1
    IN  IF Len(date_range) = 2 THEN SelectSeq(f2, Between)
        ELSE IF Len(date_range) = 1 THEN SelectSeq(f2, OnDay)
        ELSE f2

FilterSkipsFirst(rows, players, professions, date_range) ==
    LET InP(r) == r["name"] \in players
        InQ(r) == r["profession"] \in professions
        Between(r) == r["date"] >= date_range[1] /\ r["date"] <= date_range[2]
        OnDay(r) == r["date"] = date_range[1]
        f1 == IF players # {} THEN SelectSeq(rows, InP) ELSE rows
        f2 == IF professions # {} THEN SelectSeq(f1, InQ) ELSE f1
        f3 == IF Len(date_range) = 2 THEN SelectSeq(f2, Between)
              ELSE IF Len(date_range) = 1 THEN SelectSeq(f2, OnDay)
              ELSE f2
    IN  IF Len(date_range) = 1 /\ f3 # <<>> THEN Tail(f3) ELSE f3

FilterRowsOf(rows, players, professions, date_range) ==
    LET InP(r) == r["name"] \in players
        InQ(r) == r["profession"] \in professions
        Between(r) == r["date"] >= date_range[1] /\ r["date"] <= date_range[2]
        OnDay(r) == r["date"] = date_range[1]
        f1 == IF players # {} THEN SelectSeq(rows, InP) ELSE rows
        f2 == IF professions # {} THEN SelectSeq(f1, InQ) ELSE f1
    IN  IF Len(date_range) = 2 THEN SelectSeq(f2, Between)
        ELSE IF Len(date_range) = 1 THEN SelectSeq(f2, OnDay)
        ELSE f2

Filter(t, players, professions, date_range) ==
    MkTable(t.cols, FilterRowsOf(t.rows, players, professions, date_range))

\* filtered_df stays the object df exactly when no branch of lines 99-110
\* ran: every boolean-mask indexing builds a new frame.
FilterAliases(players, professions, date_range) ==
    players = {} /\ professions = {} /\ Len(date_range) = 0

(***************************************************************************)
(* aggregate: main(), line 139:                                             *)
(*   groupby(['date','name','profession'])[metric].mean().reset_index()     *)
(* groupby sorts the group keys (sort=True), lexicographically.             *)
(***************************************************************************)
KeyOf(r) == <<r["date"], r["name"], r["profession"]>>

KeyLess(a, b) ==
    \/ a[1] < b[1]
    \/ a[1] = b[1] /\ StrLess(a[2], b[2])
    \/ a[1] = b[1] /\ a[2] = b[2] /\ StrLess(a[3], b[3])

RECURSIVE SortKeys(_)
SortKeys(S) ==
    IF S = {} THEN <<>>
    ELSE LET m == CHOOSE k \in S : \A o \in S \ {k} : KeyLess(k, o)
         IN  <<m>> \o SortKeys(S \ {m})

RECURSIVE FirstSeenKeys(_, _)
FirstSeenKeys(rows, seen) ==
    IF rows = <<>> THEN <<>>
    ELSE LET k == KeyOf(Head(rows))
         IN  IF k \in seen THEN FirstSeenKeys(Tail(rows), seen)
             ELSE <<k>> \o FirstSeenKeys(Tail(rows), seen \cup {k})

RECURSIVE MetricOf(_, _, _)
MetricOf(rows, key, m) ==
    IF rows = <<>> THEN <<>>
    ELSE IF KeyOf(Head(rows)) = key
         THEN <<Head(rows)[m]>> \o MetricOf(Tail(rows), key, m)
         ELSE MetricOf(Tail(rows), key, m)

GroupRow(rows, key, m) ==
    [c \in {"date", "name", "profession", m} |->
        IF c = "date" THEN key[1]
        ELSE IF c = "name" THEN key[2]
        ELSE IF c = "profession" THEN key[3]
        ELSE Mean(MetricOf(rows, key, m))]

\* Faulty variant: the keys in first-seen order (groupby(sort=False)).
GroupKeysUnsorted(rows) == FirstSeenKeys(rows, {})

GroupKeys(rows) == SortKeys({KeyOf(rows[i]) : i \in 1..Len(rows)})

Aggregate(t, m) ==
    LET keys == GroupKeys(t.rows)
    IN  MkTable({"date", "name", "profession", m},
                [i \in 1..Len(keys) |-> GroupRow(t.rows, keys[i], m)])


(***************************************************************************)
(* derive: calculate_derived_stat, lines 27-33.  A formula is the parsed    *)
(* text: two operands (a column name or the literal "1") and an operator;   *)
(* an operand missing from the text is "".                                  *)
(***************************************************************************)
Formulas ==
    {[text |-> "damage / duration", lhs |-> "damage", op |-> "/", rhs |-> "duration"],
     [text |-> "foo + 1", lhs |-> "foo", op |-> "+", rhs |-> "1"],
     [text |-> "damage +", lhs |-> "damage", op |-> "+", rhs |-> ""],
     [text |-> "name / duration", lhs |-> "name", op |-> "/", rhs |-> "duration"]}
NoFormula == [text |-> "", lhs |-> "", op |-> "", rhs |-> ""]

IsLiteral(x) == x = "1"
Operand(row, x) == IF IsLiteral(x) THEN 1 ELSE row[x]

\* df.eval(formula): the fault it raises, or "" when it evaluates.
EvalFault(t, f) ==
    IF f.lhs = "" \/ f.rhs = "" THEN "SyntaxError"
    ELSE IF \E x \in {f.lhs, f.rhs} : ~IsLiteral(x) /\ x \notin t.cols
         THEN "UndefinedVariableError"
    ELSE IF \E x \in {f.lhs, f.rhs} : x \in TextCols THEN "TypeError"
    ELSE ""

EvalColumn(t, f) ==
    [i \in 1..Len(t.rows) |->
        LET a == Operand(t.rows[i], f.lhs)
            b == Operand(t.rows[i], f.rhs)
        IN  IF f.op = "/" THEN NumpyDiv(a, b) ELSE Fin(a + b, 1)]

\* Faulty variant: the fault is swallowed and a column of NaN handed back.
calculate_derived_stat_nan(t, f) ==
    IF EvalFault(t, f) = ""
    THEN [ok |-> TRUE, col |-> EvalColumn(t, f), error |-> ""]
    ELSE [ok |-> TRUE, col |-> [i \in 1..Len(t.rows) |-> NaN], error |-> ""]

\* ok = FALSE is the None the except branch returns after st.error.
calculate_derived_stat(t, f) ==
    IF EvalFault(t, f) = ""
    THEN [ok |-> TRUE, col |-> EvalColumn(t, f), error |-> ""]
    ELSE [ok |-> FALSE, col |-> <<>>, error |-> "Error in formula"]

\* frame[name] = column
WithColumn(t, c, col) ==
    MkTable(t.cols \cup {c},
            [i \in 1..Len(t.rows) |->
                [x \in t.cols \cup {c} |->
                    IF x = c THEN col[i] ELSE t.rows[i][x]]])

(***************************************************************************)
(* The Streamlit session.  An uploaded file is a name and the content of    *)
(* its player_stats table, whose date column still carries a time of day.   *)
(***************************************************************************)
FileNames == {"a.db", "b.db"}

RawRows ==
    <<MkRow("ann", "Guardian", [day |-> 1, tod |-> "09:30:00"], 100, 10),
      MkRow("bob", "Warrior", [day |-> 2, tod |-> "21:15:00"], 200, 0)>>

Schemas == {AllCols, AllCols \ {"num_fights"}, AllCols \ {"healing", "downs"}}
Project(rows, cols) == [i \in 1..Len(rows) |-> [c \in cols |-> rows[i][c]]]
Databases == {MkTable(cols, Project(RawRows, cols)) : cols \in Schemas}
Files == [name : FileNames, db : Databases]

\* the choices taken from the two selectbox lists (lines 135, 183)
TrendMetrics == {"damage", "healing"}
BubbleMetrics == {"damage", "downs"}

\* line 88: pd.to_datetime(df['date']).dt.date
ToDate(raw) == raw.day
NormalizeDates(t) ==
    MkTable(t.cols,
            [i \in 1..Len(t.rows) |->
                [c \in t.cols |->
                    IF c = "date" THEN ToDate(t.rows[i][c]) ELSE t.rows[i][c]]])

ColumnValues(t, c) == {t.rows[i][c] : i \in 1..Len(t.rows)}
MinOf(S) == CHOOSE x \in S : \A y \in S : x <= y
MaxOf(S) == CHOOSE x \in S : \A y \in S : x >= y

\* What st.date_input can return: 0..2 dates inside [min_value, max_value],
\* a pair in ascending order.
DateInputs(lo, hi) ==
    {dr \in SeqsUpTo(lo..hi, 2) : Len(dr) = 2 => dr[1] <= dr[2]}

\* lines 55-65: one fresh uuid per uploaded file, in list order; a later
\* file of the same name takes over the db_files entry.
RECURSIVE StoreAll(_, _, _, _)
StoreAll(files, dbf, dsk, n) ==
    IF files = <<>> THEN [db_files |-> dbf, disk |-> dsk, nextUuid |-> n]
    ELSE LET f == Head(files)
             path == <<n + 1, f.name>>
             keep == DOMAIN dbf \ {f.name}
         IN  StoreAll(Tail(files),
                      [x \in keep \cup {f.name} |->
                          IF x = f.name THEN path ELSE dbf[x]],
                      [q \in DOMAIN dsk \cup {path} |->
                          IF q = path THEN f.db ELSE dsk[q]],
                      n + 1)

RunLocalsReset ==
    /\ df' = NoTable
    /\ filtered_df' = NoTable
    /\ aliased' = FALSE
    /\ db_path' = <<>>
    /\ metric' = ""
    /\ trend_df' = NoTable
    /\ metric_comp' = ""
    /\ formula' = NoFormula
    /\ clicked' = FALSE
    /\ x_column' = ""
    /\ y_column' = ""
    /\ size_column' = ""
    /\ rendered' = {}

SessionInit ==
    /\ uploaded_files = <<>>
    /\ db_files = <<>>
    /\ disk = <<>>
    /\ cache = <<>>
    /\ nextUuid = 0
    /\ loadsOfSelection = 0
    /\ pc = "idle"
    /\ selected_db = ""
    /\ db_path = <<>>
    /\ df = NoTable
    /\ filtered_df = NoTable
    /\ aliased = FALSE
    /\ metric = ""
    /\ trend_df = NoTable
    /\ metric_comp = ""
    /\ formula = NoFormula
    /\ clicked = FALSE
    /\ x_column = ""
    /\ y_column = ""
    /\ size_column = ""
    /\ rendered = {}

RunOver == pc \in {"idle", "done", "crashed", "stopped"}

\* A user interaction: the widgets take their new values and the script is
\* run again from the top (lines 36-44).
Interact ==
    /\ RunOver
    /\ \E files \in SeqsUpTo(Files, MaxUploads) :
          /\ nextUuid + Len(files) <= MaxFiles
          /\ uploaded_files' = files
          /\ loadsOfSelection' =
                IF files = uploaded_files THEN loadsOfSelection ELSE 0
    /\ RunLocalsReset
    /\ pc' = "store"
    /\ UNCHANGED <<db_files, disk, cache, nextUuid, selected_db>>

\* lines 46-65
StoreUploads ==
    /\ pc = "store"
    /\ LET st == StoreAll(uploaded_files, db_files, disk, nextUuid)
       IN  /\ db_files' = st.db_files
           /\ disk' = st.disk
           /\ nextUuid' = st.nextUuid
    /\ pc' = "select"
    /\ UNCHANGED <<uploaded_files, cache, loadsOfSelection, selected_db,
                   db_path, df, filtered_df, aliased, metric, trend_df,
                   metric_comp, formula, clicked, x_column, y_column,
                   size_column, rendered>>

\* lines 67-71
SelectDatabase ==
    /\ pc = "select"
    /\ DOMAIN db_files # {}
    /\ \E s \in DOMAIN db_files :
          /\ selected_db' = s
          /\ db_path' = db_files[s]
          /\ loadsOfSelection' = IF s = selected_db THEN loadsOfSelection ELSE 0
    /\ pc' = "load"
    /\ UNCHANGED <<uploaded_files, db_files, disk, cache, nextUuid, df,
                   filtered_df, aliased, metric, trend_df, metric_comp,
                   formula, clicked, x_column, y_column, size_column, rendered>>

\* lines 72-74
NoDatabase ==
    /\ pc = "select"
    /\ DOMAIN db_files = {}
    /\ rendered' = rendered \cup {"warning: upload a database"}
    /\ pc' = "stopped"
    /\ UNCHANGED <<uploaded_files, db_files, disk, cache, nextUuid,
                   loadsOfSelection, selected_db, db_path, df, filtered_df,
                   aliased, metric, trend_df, metric_comp, formula, clicked,
                   x_column, y_column, size_column>>

\* lines 76-78 and load_data (lines 17-24): st.cache_data keys the call by
\* db_path and hands out a copy of the stored frame; the body runs on a miss.
\* (The connection of get_db_connection is cached per path and closed by
\* the body; no path ever reaches the body twice, so it is not kept here.)
load_data ==
    /\ pc = "load"
    /\ IF db_path \in DOMAIN cache
       THEN /\ df' = cache[db_path]
            /\ UNCHANGED <<cache, loadsOfSelection>>
       ELSE /\ df' = disk[db_path]
            /\ cache' = [q \in DOMAIN cache \cup {db_path} |->
                            IF q = db_path THEN disk[db_path] ELSE cache[q]]
            /\ loadsOfSelection' = loadsOfSelection + 1
    /\ pc' = "sidebar"
    /\ UNCHANGED <<uploaded_files, db_files, disk, nextUuid, selected_db,
                   db_path, filtered_df, aliased, metric, trend_df,
                   metric_comp, formula, clicked, x_column, y_column,
                   size_column, rendered>>

\* lines 83-110: the sidebar widgets, the in-place date normalisation and
\* the filter.
SidebarFilters ==
    /\ pc = "sidebar"
    /\ LET t == NormalizeDates(df)
           dates == ColumnValues(t, "date")
       IN  /\ df' = t
           /\ \E P \in SUBSET ColumnValues(t, "name"),
                 Q \in SUBSET ColumnValues(t, "profession"),
                 dr \in DateInputs(MinOf(dates), MaxOf(dates)) :
                 /\ filtered_df' = Filter(t, P, Q, dr)
                 /\ aliased' = FilterAliases(P, Q, dr)
    /\ pc' = "tab1"
    /\ UNCHANGED <<uploaded_files, db_files, disk, cache, nextUuid,
                   loadsOfSelection, selected_db, db_path, metric, trend_df,
                   metric_comp, formula, clicked, x_column, y_column,
                   size_column, rendered>>

runFrame == <<uploaded_files, db_files, disk, cache, nextUuid,
              loadsOfSelection, selected_db, db_path>>

\* lines 115-129: an absent column raises (KeyError from the frame,
\* ValueError from plotly) and ends the run.
Overview ==
    /\ pc = "tab1"
    /\ IF {"num_fights", "duration", "name"} \subseteq filtered_df.cols
       THEN IF {"damage", "profession"} \subseteq filtered_df.cols
            THEN /\ rendered' = rendered \cup {"metrics", "histogram"}
                 /\ pc' = "tab2"
            ELSE /\ rendered' = rendered \cup {"metrics", "exception"}
                 /\ pc' = "crashed"
       ELSE /\ rendered' = rendered \cup {"exception"}
            /\ pc' = "crashed"
    /\ UNCHANGED <<runFrame, df, filtered_df, aliased, metric, trend_df,
                   metric_comp, formula, clicked, x_column, y_column,
                   size_column>>

\* lines 131-144
Trends ==
    /\ pc = "tab2"
    /\ \E m \in TrendMetrics :
          /\ metric' = m
          /\ IF m \in filtered_df.cols
             THEN /\ trend_df' = Aggregate(filtered_df, m)
                  /\ rendered' = rendered \cup {"trend"}
                  /\ pc' = "tab3"
             ELSE /\ trend_df' = trend_df
                  /\ rendered' = rendered \cup {"exception"}
                  /\ pc' = "crashed"
    /\ UNCHANGED <<runFrame, df, filtered_df, aliased, metric_comp, formula,
                   clicked, x_column, y_column, size_column>>

\* lines 146-156
Comparison ==
    /\ pc = "tab3"
    /\ \E m \in TrendMetrics :
          /\ metric_comp' = m
          /\ IF {"profession", m, "name"} \subseteq filtered_df.cols
             THEN /\ rendered' = rendered \cup {"comparison"}
                  /\ pc' = "tab4"
             ELSE /\ rendered' = rendered \cup {"exception"}
                  /\ pc' = "crashed"
    /\ UNCHANGED <<runFrame, df, filtered_df, aliased, metric, trend_df,
                   formula, clicked, x_column, y_column, size_column>>

\* lines 158-177: the column is assigned into filtered_df, which is df
\* itself when the filter took no branch.
CustomStats ==
    /\ pc = "tab4"
    /\ \E f \in Formulas, b \in BOOLEAN :
          /\ formula' = f
          /\ clicked' = b
          /\ LET res == calculate_derived_stat(filtered_df, f)
             IN  IF ~b
                 THEN UNCHANGED <<filtered_df, df, rendered>>
                 ELSE IF ~res.ok
                 THEN /\ rendered' = rendered \cup {res.error}
                      /\ UNCHANGED <<filtered_df, df>>
                 ELSE /\ filtered_df' =
                            WithColumn(filtered_df, "custom_metric", res.col)
                      /\ df' = IF aliased THEN filtered_df' ELSE df
                      /\ rendered' = rendered \cup {"custom table", "custom bar"}
    /\ pc' = "tab5"
    /\ UNCHANGED <<runFrame, aliased, metric, trend_df, metric_comp,
                   x_column, y_column, size_column>>

\* lines 179-254
BubbleChart ==
    /\ pc = "tab5"
    /\ \E x \in BubbleMetrics, y \in BubbleMetrics, z \in BubbleMetrics :
          /\ x_column' = x
          /\ y_column' = y
          /\ size_column' = z
          /\ rendered' = rendered \cup
                (IF {x, y, z} \subseteq filtered_df.cols
                 THEN {"bubble"} ELSE {"warning: bubble"})
    /\ pc' = "done"
    /\ UNCHANGED <<runFrame, df, filtered_df, aliased, metric, trend_df,
                   metric_comp, formula, clicked>>

(***************************************************************************)
(* SpecPipe: filter and aggregate applied to bounded inputs.                *)
(***************************************************************************)
FilterRows == {MkRow(n, p, d, 100, 10) : n \in Names, p \in Profs, d \in Days}
AggRows == {MkRow(n, p, d, dmg, 10) :
                n \in Names, p \in Profs, d \in Days, dmg \in Damages}
TablesOver(R) == {MkTable(AllCols, rows) : rows \in SeqsUpTo(R, MaxRows)}
DateRanges == SeqsUpTo(Days, 2)

PipeArgs(op, t) ==
    [op |-> op, table |-> t, players |-> {}, professions |-> {},
     date_range |-> <<>>, metric |-> ""]

PipeIdle ==
    /\ stage = "off"
    /\ args = PipeArgs("none", NoTable)
    /\ result = NoTable

PipeInit ==
    /\ stage = "input"
    /\ \/ \E t \in TablesOver(FilterRows) : args = PipeArgs("filter", t)
       \/ \E t \in TablesOver(AggRows) : args = PipeArgs("aggregate", t)
    /\ result = NoTable

PipeFilter ==
    /\ stage = "input"
    /\ args.op = "filter"
    /\ \E P \in SUBSET Names, Q \in SUBSET Profs, dr \in DateRanges :
          /\ args' = [args EXCEPT !.players = P, !.professions = Q,
                                  !.date_range = dr]
          /\ result' = Filter(args.table, P, Q, dr)
    /\ stage' = "filtered"

PipeFilterAgain ==
    /\ stage = "filtered"
    /\ result' = Filter(result, args.players, args.professions,
                        args.date_range)
    /\ args' = [args EXCEPT !.table = result]
    /\ stage' = "refiltered"

PipeAggregate ==
    /\ stage = "input"
    /\ args.op = "aggregate"
    /\ \E m \in TrendMetrics :
          /\ args' = [args EXCEPT !.metric = m]
          /\ result' = Aggregate(args.table, m)
    /\ stage' = "aggregated"


(***************************************************************************)
(* app.py: update_output / parse_contents (lines 43-65, 111-120).  An       *)
(* uploaded file is its name and the table the reader parses from it;       *)
(* hasText says whether the table has string columns (Name, Profession).    *)
(***************************************************************************)
DashNames == {"log.csv", "log.xlsx", "log.txt"}
HasCsv(filename) == filename = "log.csv"
HasXls(filename) == filename = "log.xlsx"

DashCols == {"Damage", "Duration", "Condition Cleanses", "Boon Strips",
             "Total Healing"}
DashRow(dmg, dur) ==
    [c \in DashCols |->
        IF c = "Damage" THEN dmg
        ELSE IF c = "Duration" THEN dur
        ELSE IF c = "Condition Cleanses" THEN 4
        ELSE IF c = "Boon Strips" THEN 6
        ELSE 50]
DashRows == {DashRow(dmg, dur) : dmg \in {0, 100}, dur \in {0, 10}}
DashFiles == [filename : DashNames, rows : SeqsUpTo(DashRows, MaxRows),
              hasText : BOOLEAN]

\* row.Damage / row.Duration inside df.apply(..., axis=1).  The row of a
\* frame with string columns is an object Series of Python numbers, whose
\* division by zero raises; the row of an all-numeric frame holds numpy
\* scalars, whose division by zero is inf or nan.
RowFaults(file) ==
    file.hasText /\ \E i \in 1..Len(file.rows) : file.rows[i]["Duration"] = 0

PerSecond(rows, c) ==
    [i \in 1..Len(rows) |-> NumpyDiv(rows[i][c], rows[i]["Duration"])]

ErrorDiv == [error |-> TRUE, DPS |-> <<>>, CPS |-> <<>>, RPS |-> <<>>,
             HPS |-> <<>>]

parse_contents(file) ==
    IF ~HasCsv(file.filename) /\ ~HasXls(file.filename) THEN ErrorDiv
    ELSE IF RowFaults(file) THEN ErrorDiv
    ELSE [error |-> FALSE,
          DPS |-> PerSecond(file.rows, "Damage"),
          CPS |-> PerSecond(file.rows, "Condition Cleanses"),
          RPS |-> PerSecond(file.rows, "Boon Strips"),
          HPS |-> PerSecond(file.rows, "Total Healing")]

DashIdle ==
    /\ upload_data = <<>>
    /\ output_datatable = <<>>

update_output ==
    \E file \in DashFiles :
        /\ upload_data' = <<file>>
        /\ output_datatable' = <<parse_contents(file)>>

(***************************************************************************)
(* The specifications.                                                     *)
(***************************************************************************)
Init == SessionInit /\ PipeIdle /\ DashIdle

Next ==
    \/ Interact /\ UNCHANGED <<pipeVars, dashVars>>
    \/ StoreUploads /\ UNCHANGED <<pipeVars, dashVars>>
    \/ SelectDatabase /\ UNCHANGED <<pipeVars, dashVars>>
    \/ NoDatabase /\ UNCHANGED <<pipeVars, dashVars>>
    \/ load_data /\ UNCHANGED <<pipeVars, dashVars>>
    \/ SidebarFilters /\ UNCHANGED <<pipeVars, dashVars>>
    \/ Overview /\ UNCHANGED <<pipeVars, dashVars>>
    \/ Trends /\ UNCHANGED <<pipeVars, dashVars>>
    \/ Comparison /\ UNCHANGED <<pipeVars, dashVars>>
    \/ CustomStats /\ UNCHANGED <<pipeVars, dashVars>>
    \/ BubbleChart /\ UNCHANGED <<pipeVars, dashVars>>

Spec == Init /\ [][Next]_vars

InitPipe == SessionInit /\ PipeInit /\ DashIdle
NextPipe ==
    \/ PipeFilter /\ UNCHANGED <<sessionVars, dashVars>>
    \/ PipeFilterAgain /\ UNCHANGED <<sessionVars, dashVars>>
    \/ PipeAggregate /\ UNCHANGED <<sessionVars, dashVars>>
SpecPipe == InitPipe /\ [][NextPipe]_vars

InitDash == SessionInit /\ PipeIdle /\ DashIdle
NextDash == update_output /\ UNCHANGED <<sessionVars, pipeVars>>
SpecDash == InitDash /\ [][NextDash]_vars

(***************************************************************************)
(* Properties.                                                             *)
(***************************************************************************)
RECURSIVE IsSubseq(_, _)
IsSubseq(a, b) ==
    IF a = <<>> THEN TRUE
    ELSE IF b = <<>> THEN FALSE
    ELSE IF Head(a) = Head(b) THEN IsSubseq(Tail(a), Tail(b))
    ELSE IsSubseq(a, Tail(b))

Count(s, r) == Cardinality({i \in 1..Len(s) : s[i] = r})

PlayerOk(r) == args.players = {} \/ r["name"] \in args.players
ProfessionOk(r) == args.professions = {} \/ r["profession"] \in args.professions
DateOk(r) ==
    LET dr == args.date_range
    IN  /\ Len(dr) = 2 => (dr[1] <= r["date"] /\ r["date"] <= dr[2])
        /\ Len(dr) = 1 => r["date"] = dr[1]

AfterLoad == pc \in {"tab1", "tab2", "tab3", "tab4", "tab5", "done", "crashed"}

\* C1: filter returns exactly the rows that satisfy every active predicate
\* (player AND profession AND date range), in their original order, and an
\* empty player or profession selection restricts nothing.
C1_FilterExact ==
    stage = "filtered" =>
        LET T == args.table.rows
            R == result.rows
        IN  /\ result.cols = args.table.cols
            /\ IsSubseq(R, T)
            /\ \A i \in 1..Len(T) :
                  Count(R, T[i]) =
                      IF PlayerOk(T[i]) /\ ProfessionOk(T[i]) /\ DateOk(T[i])
                      THEN Count(T, T[i]) ELSE 0

C1_Witness ==
    /\ stage = "filtered"
    /\ args.players = {} /\ args.professions # {} /\ Len(args.date_range) = 2
    /\ Len(args.table.rows) = 2
    /\ Len(result.rows) = 1
    /\ result.rows[1] = args.table.rows[2]

\* C2: the date predicate is inclusive at both ends of a two-date range, and
\* a single selected date D keeps exactly the rows dated D (never D+1).
C2_DateInclusive ==
    stage = "filtered" =>
        LET T == args.table.rows
            R == result.rows
            dr == args.date_range
            Kept(r) == \E j \in 1..Len(R) : R[j] = r
        IN  \A i \in 1..Len(T) :
              (PlayerOk(T[i]) /\ ProfessionOk(T[i])) =>
                /\ Len(dr) = 2 =>
                     (Kept(T[i]) <=>
                        (dr[1] <= T[i]["date"] /\ T[i]["date"] <= dr[2]))
                /\ Len(dr) = 1 =>
                     /\ Kept(T[i]) <=> T[i]["date"] = dr[1]
                     /\ T[i]["date"] = dr[1] + 1 => ~Kept(T[i])

C2_Witness ==
    /\ stage = "filtered"
    /\ Len(args.date_range) = 1
    /\ \E i, j \in 1..Len(args.table.rows) :
          /\ args.table.rows[i]["date"] = args.date_range[1]
          /\ args.table.rows[j]["date"] = args.date_range[1] + 1
    /\ Len(result.rows) = 1
    /\ result.rows[1]["date"] = args.date_range[1]

\* C3: a formula that cannot be evaluated (unknown column, invalid syntax,
\* type fault) yields the error diagnostic and nothing else: the run goes on
\* to the next tab, no custom_metric column appears, and filtered_df and df
\* are what they were before the attempt.
C3_FormulaErrorLeavesTable ==
    [][(/\ pc = "tab4"
        /\ pc' # "tab4"
        /\ clicked'
        /\ EvalFault(filtered_df, formula') # "")
       => /\ pc' = "tab5"
          /\ filtered_df' = filtered_df
          /\ df' = df
          /\ "custom_metric" \notin filtered_df'.cols
          /\ rendered' = rendered \cup {"Error in formula"}]_vars

C3_Witness ==
    /\ pc = "done"
    /\ clicked
    /\ formula.text = "foo + 1"
    /\ "Error in formula" \in rendered
    /\ "custom_metric" \notin filtered_df.cols
    /\ Len(filtered_df.rows) = 2

\* C4: the loaded table is immutable: after any filter, derive or aggregate
\* of the run, df still is the table that was loaded (with its dates
\* normalised), in particular without a custom_metric column.
C4_LoadedTableImmutable ==
    AfterLoad => df = NormalizeDates(cache[db_path])

\* C5: a per-duration column over a table with a zero-duration row raises no
\* fault: the table is produced, that row's value is non-finite and every
\* other row has its quotient.
C5_ZeroDurationNotFatal ==
    \A i \in 1..Len(upload_data) :
        LET file == upload_data[i]
            out == output_datatable[i]
        IN  (HasCsv(file.filename) \/ HasXls(file.filename)) =>
              /\ ~out.error
              /\ Len(out.DPS) = Len(file.rows)
              /\ \A j \in 1..Len(file.rows) :
                    IF file.rows[j]["Duration"] = 0
                    THEN ~IsFinite(out.DPS[j])
                    ELSE /\ IsFinite(out.DPS[j])
                         /\ out.DPS[j].n * file.rows[j]["Duration"]
                               = out.DPS[j].d * file.rows[j]["Damage"]

\* C6: an absent group, metric or axis column gives a warning and the chart
\* that needed it is left out; it never ends the run, and the bubble chart
\* is drawn exactly when its x, y and size columns all exist.
C6_MissingColumnWarns ==
    /\ pc # "crashed"
    /\ pc = "done" =>
          ("bubble" \in rendered
              <=> {x_column, y_column, size_column} \subseteq filtered_df.cols)

\* C7: filter is idempotent: filtering the result of a filter again with the
\* same players, professions and date range returns that result.
C7_FilterIdempotent ==
    stage = "refiltered" => result = args.table

C7_Witness ==
    /\ stage = "refiltered"
    /\ args.players # {} /\ args.professions # {} /\ Len(args.date_range) = 1
    /\ Len(result.rows) = 1

\* C8: aggregate yields one row per group key (date, name, profession) that
\* occurs in the input, none missing, duplicated or invented, each with the
\* arithmetic mean of the metric over the rows of that key, in ascending key
\* order (so the order depends on the set of keys only).
C8_AggregateGroups ==
    stage = "aggregated" =>
        LET T == args.table.rows
            R == result.rows
            m == args.metric
            Members(k) == {i \in 1..Len(T) : KeyOf(T[i]) = k}
            Total(k) == LET S[I \in SUBSET (1..Len(T))] ==
                                IF I = {} THEN 0
                                ELSE LET i == CHOOSE x \in I : TRUE
                                     IN  T[i][m] + S[I \ {i}]
                        IN  S[Members(k)]
        IN  /\ {KeyOf(R[j]) : j \in 1..Len(R)} = {KeyOf(T[i]) : i \in 1..Len(T)}
            /\ \A i, j \in 1..Len(R) : i < j => KeyLess(KeyOf(R[i]), KeyOf(R[j]))
            /\ \A j \in 1..Len(R) :
                  /\ IsFinite(R[j][m])
                  /\ R[j][m].n * Cardinality(Members(KeyOf(R[j])))
                        = R[j][m].d * Total(KeyOf(R[j]))

C8_Witness ==
    /\ stage = "aggregated"
    /\ args.metric = "damage"
    /\ Len(args.table.rows) = 2
    /\ args.table.rows[1]["damage"] = 100
    /\ args.table.rows[2]["damage"] = 200
    /\ Len(result.rows) = 1
    /\ result.rows[1]["damage"] = Fin(150, 1)

\* C9: while the uploaded files and the selected database stay the same,
\* the body of load_data runs at most once, whatever the number of re-runs.
C9_LoadedOnce ==
    loadsOfSelection <= 1

\* C10: the store has no eviction: every source ever uploaded (a name and
\* its content, written under temp_dbs) still resolves through db_files,
\* and every entry offered for selection resolves to a stored file.
C10_NoEviction ==
    /\ \A q \in DOMAIN disk :
          /\ q[2] \in DOMAIN db_files
          /\ disk[db_files[q[2]]] = disk[q]
    /\ \A n \in DOMAIN db_files : db_files[n] \in DOMAIN disk

====
